---- MODULE Spec2Model ----
(***************************************************************************)
(* Reconnection engine (Component.start) and supervisor (_run / run) of    *)
(* autobahn/twisted/component.py.                                          *)
(*                                                                         *)
(* One action stands for one uninterrupted run of the code between two     *)
(* suspension points of the single-threaded reactor: the resumption of an  *)
(* engine after its sleep, and its resumption after the connection attempt *)
(* has settled, together with the callbacks that fire synchronously when   *)
(* start settles.  _run itself never suspends; its validation, each turn   *)
(* of its `for` loop and its tail are separate actions, and no engine is   *)
(* resumed before _run has returned.  The 'start' listeners fired at line  *)
(* 310 are taken to complete without suspending.                           *)
(*                                                                         *)
(* The transport descriptors (can_reconnect, next_delay, failed),          *)
(* _connect_once and the constructor's checks of the transport list live   *)
(* in autobahn.wamp.component; they are modelled from the specification.   *)
(* _connect_once builds the transport (_connect_transport) when the sleep  *)
(* has ended; an error of the build reaches start's handler in that step.  *)
(* The serializer libraries are taken to be installed.                     *)
(***************************************************************************)
EXTENDS Integers, Sequences, FiniteSets, TLC

\* ------------------------------------------------------------------ bounds

MaxTransports == 2   \* longest transport list of a component
MaxRetries == 1      \* largest bounded retry budget
MaxReattempts == 2   \* attempts after their first that all engines together may begin
MaxSslReasons == 1   \* longest OpenSSL error queue carried by an SSL.Error

\* ------------------------------------------------------------ value spaces

Comps == {"c1", "c2"}              \* the Component objects that exist
NotAComponent == "not-a-component" \* a list item that is no Component
Unbounded == -1                    \* the retry budget without limit
NoError == [cls |-> "none", error |-> "", reasons |-> 0]

Budgets == (0..MaxRetries) \cup {Unbounded}

MaxLen == Cardinality(Comps)       \* longest list handed to _run

Range(s) == {s[i] : i \in 1..Len(s)}

\* The errors a connection attempt can raise.  `error` is the URI of an
\* ApplicationError; `reasons` is len(e.args[0]) of an SSL.Error, or -1 when
\* e.args[0] is no list (SSL.SysCallError carries (errno, text)).
ApplicationError(uri) == [cls |-> "ApplicationError", error |-> uri, reasons |-> 0]
SslError(n) == [cls |-> "SSL.Error", error |-> "", reasons |-> n]
SslSysCallError == [cls |-> "SSL.SysCallError", error |-> "", reasons |-> -1]
ConnectionRefused == [cls |-> "ConnectionRefusedError", error |-> "", reasons |-> 0]
TypeError == [cls |-> "TypeError", error |-> "", reasons |-> 0]
ReactorNotRunning == [cls |-> "ReactorNotRunning", error |-> "", reasons |-> 0]
RuntimeError == [cls |-> "RuntimeError", error |-> "", reasons |-> 0]
AssertionError == [cls |-> "AssertionError", error |-> "", reasons |-> 0]

NoSuchRealm == "wamp.error.no_such_realm"
NotAuthorized == "wamp.error.not_authorized"

ConnectErrors ==
    {ApplicationError(NoSuchRealm), ApplicationError(NotAuthorized),
     SslSysCallError, ConnectionRefused}
    \cup {SslError(n) : n \in 0..MaxSslReasons}

\* -------------------------------------------------------------- variables

VARIABLES
    arg,          \* the `components` argument of _run
    components,   \* the list _run iterates over, once validated
    runpc,        \* where _run is: "call", "starting", "returned", "raised"
    heap,         \* transport descriptors, by identity
    transports,   \* Component._transports: per component, descriptor identities
    eng,          \* per list position, the engine of that start call
    dl,           \* per started position, the state of its Deferred d
    agg,          \* the Deferred returned by _run
    allDoneCalls, \* how often all_done ran
    reactor,      \* "notstarted", "running", "stopped"
    config        \* per descriptor, the transport configuration it was built from

vars == <<arg, components, runpc, heap, transports, eng, dl, agg, allDoneCalls, reactor,
          config>>

\* --------------------------------------------------- transport descriptors

\* max_retries keeps the budget the transport was configured with
Descriptor(budget) ==
    [retries_remaining |-> budget, attempt_count |-> 0, failed |-> FALSE,
     max_retries |-> budget]

can_reconnect(t) ==
    /\ ~t.failed
    /\ IF t.retries_remaining = Unbounded THEN TRUE ELSE t.retries_remaining > 0

record_attempt(t) == [t EXCEPT !.attempt_count = @ + 1]

Backoff(n) == LET d == 2 ^ (n - 1) IN IF d > 4 THEN 4 ELSE d

\* mutant: a failed attempt costs nothing
record_failure_free(t) == t

record_failure(t) ==
    IF t.retries_remaining = Unbounded THEN t
    ELSE [t EXCEPT !.retries_remaining = @ - 1]

failed(t) == [t EXCEPT !.failed = TRUE]

\* Component._can_reconnect: is any transport of the list left to try
_can_reconnect(h, ids) == \E i \in 1..Len(ids) : can_reconnect(h[ids[i]])


\* ------------------------------------------- building a transport

_TLS == TRUE    \* the OpenSSL import succeeded

\* A transport configuration: `type`, the endpoint (`etype` is its 'type', or
\* "not-a-dict" for an endpoint that is neither a dict nor an endpoint
\* object), the IP `version`, `tls`, and the serializer ids (`serializers`
\* for websocket, the one `serializer` for rawsocket; << >>: key absent).
TransportConfig(ty, et, v, tls, ids) ==
    [type |-> ty, etype |-> et, version |-> v, tls |-> tls, serializers |-> ids]

PlainWebsocket == TransportConfig("websocket", "tcp", 4, FALSE, << >>)
UnknownSerializer == TransportConfig("websocket", "tcp", 4, TRUE, <<"json", "cbor", "json">>)
UnknownType == TransportConfig("longpoll", "tcp", 4, FALSE, << >>)
UnknownEndpointType == TransportConfig("websocket", "udp", 4, FALSE, << >>)
Ipv6WithTls == TransportConfig("rawsocket", "tcp", 6, TRUE, <<"json">>)
EndpointNotADict == TransportConfig("websocket", "not-a-dict", 4, FALSE, << >>)

TransportConfigs ==
    {PlainWebsocket, UnknownSerializer, UnknownType, UnknownEndpointType, Ipv6WithTls,
     EndpointNotADict}

\* _unique_list: the elements of seq in order, each once
RECURSIVE _unique_list(_)
_unique_list(seq) ==
    IF seq = << >> THEN << >>
    ELSE LET front == _unique_list(SubSeq(seq, 1, Len(seq) - 1))
             x == seq[Len(seq)]
         IN IF x \in Range(front) THEN front ELSE Append(front, x)

\* _create_transport_serializer (rawsocket): NoError, or the error raised
_create_transport_serializer(id) ==
    IF id \in {"msgpack", "mgspack.batched", "json", "json.batched"}
    THEN NoError ELSE RuntimeError

\* mutant: an unknown serializer id is skipped like a missing library
_create_transport_serializers_skip(c) == NoError

\* _create_transport_serializers (websocket): NoError, or the error raised
_create_transport_serializers(c) ==
    LET ids == IF c.serializers # << >> THEN _unique_list(c.serializers)
               ELSE <<"msgpack", "json">>
    IN IF \A i \in 1..Len(ids) : ids[i] \in {"msgpack", "json"}
       THEN NoError ELSE RuntimeError

_create_transport_factory(c) ==
    IF c.type = "websocket" THEN _create_transport_serializers(c)
    ELSE IF c.type = "rawsocket"
    THEN _create_transport_serializer(
             IF c.serializers # << >> THEN c.serializers[1] ELSE "json")
    ELSE AssertionError

_create_transport_endpoint(c) ==
    IF c.etype = "tcp"
    THEN IF c.tls
         THEN IF ~_TLS THEN RuntimeError
              ELSE IF c.version = 4 THEN NoError
              ELSE IF c.version = 6 THEN RuntimeError
              ELSE AssertionError
         ELSE IF c.version \in {4, 6} THEN NoError ELSE AssertionError
    ELSE IF c.etype = "unix" THEN NoError
    ELSE AssertionError

\* Component._connect_transport up to endpoint.connect: the error raised
\* while building the factory and the endpoint, NoError when connect is called
_connect_transport(c) ==
    IF _create_transport_factory(c) # NoError THEN _create_transport_factory(c)
    ELSE _create_transport_endpoint(c)

\* _connect_transport tabulated over the configurations
BuildError == [c \in TransportConfigs |-> _connect_transport(c)]

\* Component._check_native_endpoint: does it accept the endpoint
_check_native_endpoint(c) == c.etype # "not-a-dict"

\* mutant: construction checks no more than the endpoint's Python type
ConstructionAccepts_native(c) == _check_native_endpoint(c)

\* the checks of the transport list at Component construction
ConstructionAccepts(c) ==
    /\ _check_native_endpoint(c)
    /\ c.type \in {"websocket", "rawsocket"}
    /\ c.etype \in {"tcp", "unix"}
    /\ ~(c.version = 6 /\ c.tls)

\* ---------------------------------------------------------- the engine

_is_ssl_error(e) == IF _TLS THEN e.cls \in {"SSL.Error", "SSL.SysCallError"} ELSE FALSE

\* mutant: no error is treated as fatal
FatalErrors_none == {}

\* the errors for which a connection is never going to work
FatalErrors == {NoSuchRealm}

\* `for (lib, fn, reason) in e.args[0]: ... transport.failed()`:
\* the transport is marked once per entry of the error queue
MarkFailedPerReason(t, n) == IF n > 0 THEN failed(t) ELSE t

\* mutant: the final `else` branch logs but does not re-raise
HandleFailure_swallow(e, t) ==
    IF e.cls = "ApplicationError"
    THEN IF e.error \in FatalErrors
         THEN [raise |-> TRUE, error |-> e, transport |-> t]
         ELSE [raise |-> FALSE, error |-> NoError, transport |-> t]
    ELSE IF _is_ssl_error(e)
    THEN IF e.reasons < 0
         THEN [raise |-> TRUE, error |-> TypeError, transport |-> t]
         ELSE [raise |-> FALSE, error |-> NoError,
               transport |-> MarkFailedPerReason(t, e.reasons)]
    ELSE [raise |-> FALSE, error |-> NoError, transport |-> t]

\* The except clause of start: what it does with exception e caught while
\* connecting transport t.  raise = the exception leaving start.
HandleFailure(e, t) ==
    IF e.cls = "ApplicationError"
    THEN IF e.error \in FatalErrors
         THEN [raise |-> TRUE, error |-> e, transport |-> t]
         ELSE [raise |-> FALSE, error |-> NoError, transport |-> t]
    ELSE IF _is_ssl_error(e)
    THEN IF e.reasons < 0
         THEN [raise |-> TRUE, error |-> TypeError, transport |-> t]
         ELSE [raise |-> FALSE, error |-> NoError,
               transport |-> MarkFailedPerReason(t, e.reasons)]
    ELSE [raise |-> TRUE, error |-> e, transport |-> t]

\* mutant: the cycle runs through the list backwards
NextIdx_reversed(cur, n) == IF cur <= 1 THEN n ELSE cur - 1

\* itertools.cycle over n elements: the position after position cur
NextIdx(cur, n) == (cur % n) + 1

NewEngine ==
    [pc |-> "unstarted", cur |-> 0, last |-> 0, skipped |-> 0, attempts |-> 0,
     delay |-> 0, result |-> "pending", term |-> "none", error |-> NoError,
     caught |-> NoError]

\* mutant: the delay is computed but not waited for
BeginAttempt_noSleep(eg, h, ids, i) ==
    LET t == record_attempt(h[ids[i]]) IN
    [eng |-> [eg EXCEPT !.pc = "connect", !.cur = i, !.attempts = @ + 1,
                        !.delay = Backoff(t.attempt_count)],
     heap |-> [h EXCEPT ![ids[i]] = t]]

\* transport.next_delay() followed by `yield sleep(delay)`
BeginAttempt(eg, h, ids, i) ==
    LET t == record_attempt(h[ids[i]]) IN
    [eng |-> [eg EXCEPT !.pc = "sleep", !.cur = i, !.attempts = @ + 1,
                        !.delay = Backoff(t.attempt_count)],
     heap |-> [h EXCEPT ![ids[i]] = t]]

\* mutant: running out of transports raises instead of returning
Exhausted_raises(eg, i) ==
    [eg EXCEPT !.pc = "done", !.cur = i, !.result = "rejected", !.term = "exhausted",
               !.error = [cls |-> "RuntimeError", error |-> "", reasons |-> 0]]

\* "No remaining transports to try": reconnect = False, start returns None
Exhausted(eg, i) ==
    [eg EXCEPT !.pc = "done", !.cur = i, !.result = "resolved", !.term = "exhausted"]

\* mutant: the delay is asked of the transport before can_reconnect is
Skip_counted(eg, h, ids, i) ==
    [eng |-> [eg EXCEPT !.cur = i, !.skipped = @ + 1],
     heap |-> [h EXCEPT ![ids[i]] = record_attempt(@)]]

\* a turn of the loop on a transport that cannot reconnect while another
\* can: nothing but the cycle has moved
Skip(eg, h, ids, i) ==
    [eng |-> [eg EXCEPT !.cur = i, !.skipped = @ + 1], heap |-> h]

\* mutant: the loop gives up only after it has gone round all transports
RECURSIVE Loop_round(_, _, _)
Loop_round(eg, h, ids) ==
    LET i == NextIdx(eg.cur, Len(ids)) IN
    IF can_reconnect(h[ids[i]])
    THEN BeginAttempt(eg, h, ids, i)
    ELSE IF eg.skipped >= Len(ids)
    THEN [eng |-> Exhausted(eg, i), heap |-> h]
    ELSE Loop_round(Skip(eg, h, ids, i).eng, Skip(eg, h, ids, i).heap, ids)

\* The while loop of start from its top until it suspends or ends.
RECURSIVE Loop(_, _, _)
Loop(eg, h, ids) ==
    LET i == NextIdx(eg.cur, Len(ids)) IN
    IF can_reconnect(h[ids[i]])
    THEN BeginAttempt(eg, h, ids, i)
    ELSE IF ~_can_reconnect(h, ids)
    THEN [eng |-> Exhausted(eg, i), heap |-> h]
    ELSE Loop(Skip(eg, h, ids, i).eng, Skip(eg, h, ids, i).heap, ids)

\* one entry of the loop after the attempt on eg.cur (or at the start, cur = 0)
RunLoop(eg, h, ids) == Loop([eg EXCEPT !.last = eg.cur, !.skipped = 0], h, ids)

\* mutant: reconnect is left True after a successful attempt
OnSuccess_noStop(eg, h, ids) == RunLoop([eg EXCEPT !.term = "success"], h, ids)

\* `else: reconnect = False` after _connect_once returned
OnSuccess(eg, h, ids) ==
    [eng |-> [eg EXCEPT !.pc = "done", !.result = "resolved", !.term = "success"],
     heap |-> h]

\* the exception handler, then either the raise leaving start or the next
\* turn of the loop
OnFailure(eg, h, ids, e) ==
    LET id == ids[eg.cur]
        hf == HandleFailure(e, h[id])
        eg1 == [eg EXCEPT !.caught = e]
    IN IF hf.raise
       THEN [eng |-> [eg1 EXCEPT !.pc = "done", !.result = "rejected",
                                 !.term = "failure", !.error = hf.error],
             heap |-> [h EXCEPT ![id] = hf.transport]]
       ELSE RunLoop(eg1, [h EXCEPT ![id] = record_failure(hf.transport)], ids)


\* ------------------------------------------------------- the supervisor

\* `if isinstance(components, Component): components = [components]`
Normalise(a) == IF a.kind = "component" THEN [kind |-> "list", items |-> a.items] ELSE a

\* mutant: only the first item of the list is looked at
Valid_first(a) ==
    /\ Normalise(a).kind = "list"
    /\ Len(a.items) > 0 => a.items[1] \in Comps

\* the two checks of _run that raise ValueError
Valid(a) ==
    /\ Normalise(a).kind = "list"
    /\ \A i \in 1..Len(a.items) : a.items[i] \in Comps

\* mutant: one transport list shared by every component (a class attribute)
EngineTransports_shared(k) == transports[components[1]]

\* the transports the engine of list position k cycles over: self._transports
EngineTransports(k) == transports[components[k]]

\* component_success returns arg: the Deferred stays on its callback side
component_success == "success"

\* component_failure logs and returns None: the failure is consumed
component_failure == "success"

\* the state of d once start has settled and the two callbacks have run
Settled(eg) ==
    IF eg.pc # "done" THEN "pending"
    ELSE IF eg.result = "rejected" THEN component_failure ELSE component_success

\* mutant: the gathered Deferred fires with the first member that fires
GatherFired_any(ds) == ds = << >> \/ \E i \in 1..Len(ds) : ds[i] # "pending"

\* txaio.gather(dl, consume_exceptions=False): a DeferredList, which fires
\* once every Deferred of the list has fired
GatherFired(ds) == \A i \in 1..Len(ds) : ds[i] # "pending"

\* mutant: all_done without the try/except around reactor.stop()
all_done_noExcept(r) ==
    IF r = "running"
    THEN [reactor |-> "stopped", raised |-> NoError]
    ELSE [reactor |-> r, raised |-> ReactorNotRunning]

\* all_done: reactor.stop(), ReactorNotRunning swallowed; returns None
all_done(r) ==
    IF r = "running"
    THEN [reactor |-> "stopped", raised |-> NoError]
    ELSE [reactor |-> r, raised |-> NoError]

\* the callbacks on the gathered Deferred, run when (and if) it fires
FireGather(ds, r, a, n) ==
    IF a \in {"none", "pending"} /\ GatherFired(ds)
    THEN LET ad == all_done(r) IN
         [agg |-> IF ad.raised = NoError THEN "success" ELSE "failure",
          reactor |-> ad.reactor, calls |-> n + 1]
    ELSE [agg |-> IF a = "none" THEN "pending" ELSE a, reactor |-> r, calls |-> n]

\* ----------------------------------------------------------------- Init

Args ==
    [kind : {"component"}, items : {<<c>> : c \in Comps}]
    \cup [kind : {"list"},
          items : UNION {[1..n -> Comps \cup {NotAComponent}] : n \in 0..MaxLen}]
    \cup [kind : {"other"}, items : {<< >>}]

NoRepeat(s) == \A i, j \in 1..Len(s) : (i # j /\ s[i] \in Comps) => s[i] # s[j]

Listed(a) == Range(a.items) \cap Comps

BudgetLists == UNION {[1..n -> Budgets] : n \in 1..MaxTransports}

DescIds == Comps \X (1..MaxTransports)

RECURSIVE TotalLen(_, _)
TotalLen(cfg, cs) ==
    IF cs = {} THEN 0
    ELSE LET c == CHOOSE x \in cs : TRUE IN Len(cfg[c]) + TotalLen(cfg, cs \ {c})

\* Component construction: one fresh descriptor per configured transport
Construct(cfg) ==
    /\ transports = [c \in Comps |-> [i \in 1..Len(cfg[c]) |-> <<c, i>>]]
    /\ heap = [id \in {d \in DescIds : d[2] <= Len(cfg[d[1]])} |->
                  Descriptor(cfg[id[1]][id[2]])]

\* the transport configurations a constructed component can have
Constructible(tcs) == \A i \in 1..Len(tcs) : ConstructionAccepts(tcs[i])

\* The configurations written for the components.  A component exists (and
\* can be handed to _run) only if its construction did not raise; one that
\* is not handed to _run has one transport, plain or rejected.  At most one
\* transport in all is other than a plain websocket.
Configure(cfg, listed) ==
    \E tc \in [DOMAIN heap -> TransportConfigs] :
        /\ \A c \in listed : Constructible([i \in 1..Len(cfg[c]) |-> tc[<<c, i>>]])
        /\ \A id \in DOMAIN heap :
              id[1] \notin listed => tc[id] = PlainWebsocket \/ ~ConstructionAccepts(tc[id])
        /\ \A id1, id2 \in DOMAIN heap :
              (tc[id1] # PlainWebsocket /\ tc[id2] # PlainWebsocket) => id1 = id2
        /\ config = tc

InitWith(a) ==
    /\ arg = a
    /\ components = << >>
    /\ runpc = "call"
    /\ \E cfg \in [Comps -> BudgetLists] :
          /\ \A c \in Comps \ Listed(a) : cfg[c] = <<0>>
          /\ TotalLen(cfg, Listed(a)) <= MaxTransports
          /\ Construct(cfg)
          /\ Configure(cfg, Listed(a))
    /\ eng = [k \in 1..MaxLen |-> NewEngine]
    /\ dl = << >>
    /\ agg = "none"
    /\ allDoneCalls = 0
    /\ reactor = "notstarted"

Init == \E a \in Args : NoRepeat(a.items) /\ InitWith(a)

\* a component may be handed to _run more than once; every transport is a
\* plain websocket
InitShared ==
    /\ \E a \in Args : InitWith(a)
    /\ \A id \in DOMAIN config : config[id] = PlainWebsocket

\* -------------------------------------------------------------- actions

\* _run, lines 380-394: normalise and validate the argument
RunCall ==
    /\ runpc = "call"
    /\ IF Valid(arg)
       THEN components' = arg.items /\ runpc' = "starting"
       ELSE components' = components /\ runpc' = "raised"
    /\ UNCHANGED <<config, arg, heap, transports, eng, dl, agg, allDoneCalls, reactor>>

\* mutant: the loop over the components ends after its first turn
MoreToStart_first(ds, cs) == Len(ds) < 1 /\ Len(ds) < Len(cs)

\* `for c in components:` has components left to start
MoreToStart(ds, cs) == Len(ds) < Len(cs)

\* _run, lines 409-413: d = c.start(reactor) for the next component; start
\* runs until its first suspension (or its end), then the callbacks are added
StartComponent ==
    /\ runpc = "starting"
    /\ MoreToStart(dl, components)
    /\ LET k == Len(dl) + 1
           r == RunLoop([eng[k] EXCEPT !.pc = "loop"], heap, EngineTransports(k))
       IN /\ eng' = [eng EXCEPT ![k] = r.eng]
          /\ heap' = r.heap
          /\ dl' = Append(dl, Settled(r.eng))
    /\ UNCHANGED <<config, arg, components, runpc, transports, agg, allDoneCalls, reactor>>

\* _run, lines 414-425: gather, add all_done, return d
Gather ==
    /\ runpc = "starting"
    /\ ~MoreToStart(dl, components)
    /\ LET g == FireGather(dl, reactor, agg, allDoneCalls) IN
          /\ agg' = g.agg
          /\ reactor' = g.reactor
          /\ allDoneCalls' = g.calls
    /\ runpc' = "returned"
    /\ UNCHANGED <<config, arg, components, heap, transports, eng, dl>>

\* run: react(_run, ...) runs the reactor once _run has returned, and stops
\* it at once when the returned Deferred has already fired
ReactorRun ==
    /\ reactor = "notstarted"
    /\ runpc = "returned"
    /\ reactor' = IF agg = "pending" THEN "running" ELSE "stopped"
    /\ UNCHANGED <<config, arg, components, runpc, heap, transports, eng, dl, agg, allDoneCalls>>

\* the reactor resumes an engine only between two callbacks, while it runs
Resumable(k) ==
    /\ reactor = "running"
    /\ runpc = "returned"
    /\ k \in 1..Len(dl)

RECURSIVE Reattempts(_, _)
Reattempts(es, n) ==
    IF n = 0 THEN 0
    ELSE (IF es[n].attempts > 1 THEN es[n].attempts - 1 ELSE 0) + Reattempts(es, n - 1)

\* what follows an engine step: d of position k may have fired, and with it
\* the gathered Deferred
EngineStep(k, s) ==
    /\ eng' = [eng EXCEPT ![k] = s.eng]
    /\ heap' = s.heap
    /\ dl' = [dl EXCEPT ![k] = Settled(s.eng)]
    /\ \E g \in {FireGather(dl', reactor, agg, allDoneCalls)} :
          /\ agg' = g.agg
          /\ reactor' = g.reactor
          /\ allDoneCalls' = g.calls
    /\ UNCHANGED <<config, arg, components, runpc, transports>>

\* an engine step, as long as the attempts begun stay within MaxReattempts
AfterStep(k, r) ==
    \E s \in {r} :
        /\ Reattempts([eng EXCEPT ![k] = s.eng], MaxLen) <= MaxReattempts
        /\ EngineStep(k, s)

\* the configuration of the transport the engine of position k is on
CurrentConfig(k) == config[EngineTransports(k)[eng[k].cur]]

\* the sleep ends: start calls _connect_once, which builds the transport
\* (an error of the build is caught by start at once) and connects
SleepDone(k) ==
    /\ Resumable(k)
    /\ eng[k].pc = "sleep"
    /\ \E err \in {BuildError[CurrentConfig(k)]} :
          IF err = NoError
          THEN AfterStep(k, [eng |-> [eng[k] EXCEPT !.pc = "connect"], heap |-> heap])
          ELSE AfterStep(k, OnFailure(eng[k], heap, EngineTransports(k), err))

\* _connect_once returned without error
ConnectSucceeds(k) ==
    /\ Resumable(k)
    /\ eng[k].pc = "connect"
    /\ AfterStep(k, OnSuccess(eng[k], heap, EngineTransports(k)))

\* _connect_once raised e
ConnectFails(k) ==
    /\ Resumable(k)
    /\ eng[k].pc = "connect"
    /\ \E e \in ConnectErrors :
          AfterStep(k, OnFailure(eng[k], heap, EngineTransports(k), e))

Next ==
    \/ RunCall
    \/ StartComponent
    \/ Gather
    \/ ReactorRun
    \/ \E k \in 1..MaxLen : SleepDone(k)
    \/ \E k \in 1..MaxLen : ConnectSucceeds(k)
    \/ \E k \in 1..MaxLen : ConnectFails(k)

Spec == Init /\ [][Next]_vars

SpecShared == InitShared /\ [][Next]_vars

\* ---------------------------------------- bounded budgets, fair scheduling

\* every transport is configured with a bounded retry budget
InitBounded ==
    /\ Init
    /\ \A id \in DOMAIN heap : heap[id].max_retries # Unbounded

\* the most attempts the bounded budgets of one component can pay for; an
\* engine that has begun more is not followed further
AttemptLimit == MaxTransports * MaxRetries

Followed(k) == eng[k].attempts <= AttemptLimit

\* SleepDone, without the limit of MaxReattempts
SleepEnds(k) ==
    /\ Followed(k)
    /\ Resumable(k)
    /\ eng[k].pc = "sleep"
    /\ \E err \in {BuildError[CurrentConfig(k)]} :
          IF err = NoError
          THEN EngineStep(k, [eng |-> [eng[k] EXCEPT !.pc = "connect"], heap |-> heap])
          ELSE \E s \in {OnFailure(eng[k], heap, EngineTransports(k), err)} :
                  EngineStep(k, s)

\* ConnectSucceeds or ConnectFails, without the limit of MaxReattempts
AttemptSettles(k) ==
    /\ Followed(k)
    /\ Resumable(k)
    /\ eng[k].pc = "connect"
    /\ \/ \E s \in {OnSuccess(eng[k], heap, EngineTransports(k))} : EngineStep(k, s)
       \/ \E e \in ConnectErrors :
             \E s \in {OnFailure(eng[k], heap, EngineTransports(k), e)} : EngineStep(k, s)

NextFair ==
    \/ RunCall
    \/ StartComponent
    \/ Gather
    \/ ReactorRun
    \/ \E k \in 1..MaxLen : SleepEnds(k)
    \/ \E k \in 1..MaxLen : AttemptSettles(k)

\* _run runs through without suspending, react then runs the reactor, and
\* every sleep and every connection attempt settles
SpecFair ==
    /\ InitBounded
    /\ [][NextFair]_vars
    /\ WF_vars(RunCall)
    /\ WF_vars(StartComponent)
    /\ WF_vars(Gather)
    /\ WF_vars(ReactorRun)
    /\ \A k \in 1..MaxLen : WF_vars(SleepEnds(k)) /\ WF_vars(AttemptSettles(k))


\* ------------------------------------------------------------ the claims

Started == 1..Len(dl)

Ids(k) == EngineTransports(k)

\* the positions the cycle passes on its way from position a to position b
Between(a, b, n) ==
    {i \in 1..n : IF a < b THEN a < i /\ i < b ELSE i > a \/ i < b}

Attempting(k) == eng[k].pc \in {"sleep", "connect"}

\* C1: within one engine the attempts follow the configured order cyclically:
\* when an attempt is on position cur and the previous one was on position
\* last (0: none yet), every position the cycle passes in between cannot
\* retry; so with every transport eligible cur is the successor of last.
C1_RoundRobinOrder ==
    \A k \in Started :
        Attempting(k) =>
            \A i \in Between(eng[k].last, eng[k].cur, Len(Ids(k))) :
                ~can_reconnect(heap[Ids(k)[i]])

\* an engine on its third attempt that has wrapped from the last transport
\* back to the first
C1_Witness ==
    \E k \in Started :
        /\ Attempting(k)
        /\ Len(Ids(k)) >= 2
        /\ eng[k].attempts = 3
        /\ eng[k].last = Len(Ids(k))
        /\ eng[k].cur = 1


\* the position of the attempt whose failure was caught last
FailedIdx(k) == IF eng[k].term = "failure" THEN eng[k].cur ELSE eng[k].last

Rejected(k, e) ==
    /\ eng[k].pc = "done"
    /\ eng[k].term = "failure"
    /\ eng[k].result = "rejected"
    /\ eng[k].error = e

\* C2: an attempt that fails with ApplicationError(wamp.error.no_such_realm)
\* ends the engine: start rejects with that same error, and when it was the
\* engine's first attempt no other transport has been waited for or attempted.
C2_FatalShortCircuits ==
    \A k \in Started :
        eng[k].caught = ApplicationError(NoSuchRealm) =>
            /\ Rejected(k, eng[k].caught)
            /\ eng[k].attempts = 1 =>
                  \A i \in 1..Len(Ids(k)) :
                      i # eng[k].cur => heap[Ids(k)[i]].attempt_count = 0

\* [A, B], both able to retry: the first attempt, on A, failed fatally
C2_Witness ==
    \E k \in Started :
        /\ Len(Ids(k)) = 2
        /\ eng[k].caught = ApplicationError(NoSuchRealm)
        /\ eng[k].attempts = 1
        /\ eng[k].cur = 1
        /\ can_reconnect(heap[Ids(k)[2]])
        /\ eng[k].term = "failure"

\* C3 as stated: every caught error that is neither the realm rejection nor a
\* TLS error ends the engine and is the error start rejects with.
C3_AnyOtherErrorIsTerminal ==
    \A k \in Started :
        ( /\ eng[k].caught # NoError
          /\ eng[k].caught # ApplicationError(NoSuchRealm)
          /\ ~_is_ssl_error(eng[k].caught) )
        => Rejected(k, eng[k].caught)

\* C3, amended: every caught error that is neither an ApplicationError nor a
\* TLS error ends the engine and is the error start rejects with.
C3_NonApplicationErrorIsTerminal ==
    \A k \in Started :
        ( /\ eng[k].caught # NoError
          /\ eng[k].caught.cls # "ApplicationError"
          /\ ~_is_ssl_error(eng[k].caught) )
        => Rejected(k, eng[k].caught)

\* a refused connection on A while B could still have been tried
C3_Witness ==
    \E k \in Started :
        /\ Len(Ids(k)) = 2
        /\ eng[k].caught = ConnectionRefused
        /\ eng[k].cur = 1
        /\ can_reconnect(heap[Ids(k)[2]])
        /\ eng[k].term = "failure"

\* C4: [A, B], both unbounded: once an attempt on A has failed with an
\* SSL.Error, A is marked failed, start has not rejected, and any attempt
\* under way is on B.
C4_TransportLocalDisqualifies ==
    \A k \in Started :
        ( /\ Len(Ids(k)) = 2
          /\ \A i \in 1..2 : heap[Ids(k)[i]].retries_remaining = Unbounded
          /\ eng[k].caught.cls = "SSL.Error"
          /\ FailedIdx(k) = 1 )
        => /\ heap[Ids(k)[1]].failed
           /\ eng[k].result # "rejected"
           /\ Attempting(k) => eng[k].cur = 2

\* C5: an engine stops as exhausted exactly when no transport can retry: it
\* is then done, start has resolved without error, and when nothing could
\* retry from construction no attempt was made at all.
C5_ExhaustionIsQuiet ==
    \A k \in Started :
        /\ (~Attempting(k) /\ ~_can_reconnect(heap, Ids(k)) /\ eng[k].term # "failure"
              /\ eng[k].term # "success")
           => eng[k].term = "exhausted"
        /\ eng[k].term = "exhausted" =>
              /\ eng[k].pc = "done"
              /\ eng[k].result = "resolved"
              /\ eng[k].error = NoError
              /\ ~_can_reconnect(heap, Ids(k))
        /\ (\A i \in 1..Len(Ids(k)) :
               /\ heap[Ids(k)[i]].retries_remaining = 0
               /\ heap[Ids(k)[i]].attempt_count = 0)
           => eng[k].term = "exhausted" /\ eng[k].attempts = 0

\* a single transport with budget 0: start has resolved without an attempt
C5_Witness ==
    \E k \in Started :
        /\ Len(Ids(k)) = 1
        /\ heap[Ids(k)[1]] = Descriptor(0)
        /\ eng[k].term = "exhausted"
        /\ eng[k].result = "resolved"


AllSettled == \A k \in 1..Len(components) : eng[k].pc = "done"

\* C6: all_done runs at most once, only after _run has gathered the results
\* and with the start of every component settled, and it has run once all
\* of them have settled.
C6_AllDoneOnceAfterAll ==
    /\ allDoneCalls <= 1
    /\ allDoneCalls = 1 => runpc = "returned" /\ AllSettled
    /\ (runpc = "returned" /\ AllSettled) => allDoneCalls = 1

\* two components, one settled by failure and one by success; all_done has
\* run and stopped the running reactor
C6_Witness ==
    /\ Len(components) = 2
    /\ allDoneCalls = 1
    /\ eng[1].term = "failure"
    /\ eng[2].term = "success"
    /\ reactor = "stopped"

EngineFrozen(k) ==
    /\ eng'[k] = eng[k]
    /\ dl'[k] = dl[k]
    /\ \A i \in 1..Len(Ids(k)) : heap'[Ids(k)[i]] = heap[Ids(k)[i]]

\* C7: an engine whose outcome is decided (success, failure or exhausted) is
\* done and its Deferred has fired; from then on no step changes its cursor,
\* its waits and attempts, its result or its descriptors.
C7_TerminalIsFinal ==
    /\ [](\A k \in Started :
             eng[k].term # "none" =>
                 /\ eng[k].pc = "done"
                 /\ eng[k].result # "pending"
                 /\ dl[k] # "pending")
    /\ [][\A k \in Started : eng[k].term # "none" => EngineFrozen(k)]_vars

\* one engine has ended while the other goes on to a second attempt
C7_Witness ==
    /\ Len(components) = 2
    /\ \E j, k \in Started :
          /\ eng[j].term # "none"
          /\ eng[j].attempts >= 1
          /\ eng[k].pc = "connect"
          /\ eng[k].attempts = 2

\* C8: no failure of a component reaches the supervisor's result: every d
\* ends on its callback side, the Deferred returned by _run never fails, and
\* once all components have settled it has succeeded with the reactor not
\* running, also when the reactor was not running at the time of the stop.
C8_FailuresDoNotEscape ==
    /\ agg # "failure"
    /\ \A k \in Started : dl[k] # "failure"
    /\ (runpc = "returned" /\ AllSettled) => agg = "success" /\ reactor # "running"

\* every component failed, and the supervisor's result succeeded
C8_Witness ==
    /\ Len(components) = 2
    /\ \A k \in 1..2 : eng[k].term = "failure"
    /\ agg = "success"
    /\ reactor = "stopped"

\* C9: when _run returns, start has been invoked on every component, however
\* the earlier ones settled; a step of one engine changes no other engine,
\* no other Deferred and no descriptor of another component; and while the
\* reactor runs, an engine that waits can always take its next step.
C9_Independence ==
    /\ [](runpc = "returned" =>
             \A k \in 1..Len(components) : eng[k].pc # "unstarted")
    /\ [](\A k \in Started :
             (runpc = "returned" /\ reactor # "notstarted" /\ eng[k].pc # "done")
             => /\ reactor = "running"
                /\ eng[k].pc = "sleep" => ENABLED SleepDone(k)
                /\ eng[k].pc = "connect" => ENABLED ConnectSucceeds(k))
    /\ [][\A j, k \in 1..Len(components) :
             (j # k /\ eng'[k] # eng[k]) =>
                 /\ eng'[j] = eng[j]
                 /\ j \in Started => dl'[j] = dl[j]
                 /\ \A i \in 1..Len(Ids(j)) : heap'[Ids(j)[i]] = heap[Ids(j)[i]]]_vars

\* the first component's start has failed; the second engine is past a
\* failed attempt and connecting again
C9_Witness ==
    /\ Len(components) = 2
    /\ eng[1].term = "failure"
    /\ eng[2].pc = "connect"
    /\ eng[2].attempts = 2

DescriptorsOf(k) == Range(EngineTransports(k))

\* C10 as stated: no two engines iterate over a common descriptor.
C10_NoSharedDescriptor ==
    \A j, k \in Started : j # k => DescriptorsOf(j) \cap DescriptorsOf(k) = {}

\* C10, amended: engines started on different Component objects iterate over
\* disjoint descriptors, and a descriptor changes only in a step of an engine
\* of the component that holds it.
C10_DistinctComponentsDisjoint ==
    /\ [](\A j, k \in Started :
             components[j] # components[k] =>
                 DescriptorsOf(j) \cap DescriptorsOf(k) = {})
    /\ [][\A d \in DOMAIN heap :
             heap'[d] # heap[d] =>
                 \E k \in 1..Len(components) :
                     /\ eng'[k] # eng[k]
                     /\ d \in DescriptorsOf(k)
                     /\ d[1] = components[k]]_vars

\* two different components, each engine having recorded a failed attempt
C10_Witness ==
    /\ Len(components) = 2
    /\ components[1] # components[2]
    /\ \A k \in 1..2 :
          /\ k \in Started
          /\ eng[k].attempts >= 1
          /\ eng[k].caught # NoError

\* C11: when building the transport for an attempt fails on an unknown
\* serializer id, the engine stops there: no connection is awaited on that
\* transport, start rejects with the RuntimeError of the build, and in that
\* step the cursor stays, no further attempt begins and no descriptor of the
\* engine changes.
C11_UnknownSerializerIsTerminal ==
    /\ [](\A k \in Started :
            /\ eng[k].pc = "connect" => CurrentConfig(k) # UnknownSerializer
            /\ (eng[k].pc = "done" /\ eng[k].term # "exhausted"
                    /\ CurrentConfig(k) = UnknownSerializer)
               => Rejected(k, RuntimeError))
    /\ [][\A k \in Started :
            (eng[k].pc = "sleep" /\ CurrentConfig(k) = UnknownSerializer
                /\ eng'[k] # eng[k])
            => /\ eng'[k] = [eng[k] EXCEPT !.pc = "done", !.result = "rejected",
                                           !.term = "failure", !.error = RuntimeError,
                                           !.caught = RuntimeError]
               /\ \A i \in 1..Len(Ids(k)) : heap'[Ids(k)[i]] = heap[Ids(k)[i]]]_vars

\* start has rejected on an unknown serializer while another transport of
\* the component could still have been tried
C11_Witness ==
    \E k \in Started :
        /\ Rejected(k, RuntimeError)
        /\ CurrentConfig(k) = UnknownSerializer
        /\ \E i \in 1..Len(Ids(k)) :
              /\ i # eng[k].cur
              /\ can_reconnect(heap[Ids(k)[i]])
              /\ config[Ids(k)[i]] = PlainWebsocket

\* does the configuration name a known transport type, a known endpoint type
\* and a combination for which an endpoint exists
WellFormed(c) ==
    /\ c.type \in {"websocket", "rawsocket"}
    /\ c.etype \in {"tcp", "unix"}
    /\ ~(c.version = 6 /\ c.tls)

C13_TransportLocalDisqualifiesOne ==
    [][\A k \in Started :
          (eng[k].pc = "connect" /\ eng'[k] # eng[k] /\ eng'[k].term # "success"
              /\ _is_ssl_error(eng'[k].caught))
          => /\ heap'[Ids(k)[eng[k].cur]].failed
             /\ \A id \in DOMAIN heap :
                   id # Ids(k)[eng[k].cur]
                   => /\ heap'[id].failed = heap[id].failed
                      /\ heap'[id].retries_remaining = heap[id].retries_remaining
             /\ eng'[k].result # "rejected"
             /\ eng'[k].last = eng[k].cur]_vars

\* C14: a turn of the loop that finds its transport unable to reconnect while
\* another can is free.  In a step that takes an engine through the loop to
\* a wait past skipped transports, the positions skipped are the ones the
\* cycle passes between the attempt before and the one now begun; none of
\* them could reconnect, the descriptor of each is exactly as before the step
\* (attempt count, budget and failed flag), and the step has begun one wait
\* and one attempt, on the transport reached.  A loop that has skipped a
\* transport does not end exhausted.
C14_SkippingIsFree ==
    /\ [](\A k \in Started : eng[k].skipped > 0 => eng[k].term # "exhausted")
    /\ [][\A k \in 1..Len(components) :
            (eng'[k] # eng[k] /\ eng'[k].pc = "sleep" /\ eng'[k].skipped > 0)
            => LET e == eng'[k]
                   passed == Between(e.last, e.cur, Len(Ids(k)))
               IN /\ e.skipped = Cardinality(passed)
                  /\ \A i \in passed :
                        /\ ~can_reconnect(heap'[Ids(k)[i]])
                        /\ heap'[Ids(k)[i]] = heap[Ids(k)[i]]
                  /\ e.attempts = eng[k].attempts + 1
                  /\ e.delay = Backoff(heap'[Ids(k)[e.cur]].attempt_count)
                  /\ heap'[Ids(k)[e.cur]].attempt_count
                         = heap[Ids(k)[e.cur]].attempt_count + 1]_vars

\* an engine waits for its third attempt, having just skipped a transport
\* that it had attempted before
C14_Witness ==
    \E k \in Started :
        /\ eng[k].pc = "sleep"
        /\ eng[k].skipped > 0
        /\ eng[k].attempts = 3
        /\ \E i \in Between(eng[k].last, eng[k].cur, Len(Ids(k))) :
              heap[Ids(k)[i]].attempt_count > 0

\* C15: every wait of an engine is for the delay computed for the transport
\* the cursor is on, and every attempt follows such a wait at once.  An
\* engine comes to connect only from its sleep, with cursor, delay and count
\* of attempts as they were; a sleep that ends is followed by the attempt on
\* the same transport (which may fail while it is built) and by nothing
\* else; and each sleep begun is for one new attempt, begun by the loop.
C15_BackoffPrecedesAttempt ==
    /\ [](\A k \in Started :
            Attempting(k) =>
                /\ heap[Ids(k)[eng[k].cur]].attempt_count >= 1
                /\ eng[k].delay = Backoff(heap[Ids(k)[eng[k].cur]].attempt_count))
    /\ [][\A k \in 1..Len(components) :
            /\ (eng'[k].pc = "connect" /\ eng'[k] # eng[k])
               => /\ eng[k].pc = "sleep"
                  /\ eng'[k] = [eng[k] EXCEPT !.pc = "connect"]
            /\ (eng[k].pc = "sleep" /\ eng'[k] # eng[k])
               => /\ eng'[k].cur = eng[k].cur
                  /\ eng'[k].attempts = eng[k].attempts
                  /\ \/ eng'[k].pc = "connect"
                     \/ /\ eng'[k].pc = "done"
                        /\ eng'[k].caught = BuildError[CurrentConfig(k)]
                        /\ eng'[k].caught # NoError
            /\ (eng'[k].pc = "sleep" /\ eng'[k] # eng[k])
               => /\ eng[k].pc \in {"unstarted", "connect"}
                  /\ eng'[k].attempts = eng[k].attempts + 1
            /\ eng'[k].attempts # eng[k].attempts => eng'[k].pc = "sleep"]_vars

\* an engine connects for the second time to the same transport, after a
\* wait of the second delay of the backoff
C15_Witness ==
    \E k \in Started :
        /\ eng[k].pc = "connect"
        /\ eng[k].last = eng[k].cur
        /\ heap[Ids(k)[eng[k].cur]].attempt_count = 2
        /\ eng[k].delay = Backoff(2)

\* is the attempt last counted on descriptor id still without a recorded
\* failure: its engine is waiting or connecting on it, or has ended on it
\* with success or with a raised error
Unrecorded(id) ==
    \E k \in Started :
        /\ eng[k].cur > 0
        /\ Ids(k)[eng[k].cur] = id
        /\ Attempting(k) \/ eng[k].term \in {"success", "failure"}

Terminated(k) ==
    /\ eng[k].pc = "done"
    /\ eng[k].term \in {"success", "failure", "exhausted"}
    /\ eng[k].result \in {"resolved", "rejected"}

C18_BoundedSkipping ==
    \A k \in Started :
        /\ eng[k].skipped + 1 <= Len(Ids(k))
        /\ Attempting(k) =>
               eng[k].skipped = Cardinality(Between(eng[k].last, eng[k].cur, Len(Ids(k))))
        /\ eng[k].term = "exhausted" => eng[k].skipped = 0

\* after a failed attempt the loop has skipped every other transport and
\* come round to the one it had just attempted
C18_Witness ==
    \E k \in Started :
        /\ eng[k].pc = "sleep"
        /\ eng[k].last = eng[k].cur
        /\ Len(Ids(k)) = MaxTransports
        /\ eng[k].skipped = MaxTransports - 1

\* a single Component, or a list whose items are all Components
Acceptable(a) ==
    /\ a.kind \in {"component", "list"}
    /\ \A i \in 1..Len(a.items) : a.items[i] \in Comps

\* C19: _run takes a single Component as the list of that one component and
\* goes on with a list exactly when all its items are Components; otherwise
\* it raises before any start: no engine has started, no descriptor has been
\* touched, nothing was gathered, all_done has not run and the reactor is as
\* it was.
C19_ValidationAllOrNothing ==
    /\ runpc # "call" => (runpc = "raised" <=> ~Acceptable(arg))
    /\ runpc \in {"starting", "returned"} => components = arg.items
    /\ ~Acceptable(arg) =>
           /\ dl = << >>
           /\ \A k \in 1..MaxLen : eng[k] = NewEngine
           /\ \A id \in DOMAIN heap : heap[id] = Descriptor(heap[id].max_retries)
           /\ agg = "none"
           /\ allDoneCalls = 0
           /\ reactor = "notstarted"

\* _run has raised on a list whose first item is a Component with a
\* transport that can be tried and whose second item is not a Component
C19_Witness ==
    /\ runpc = "raised"
    /\ arg.kind = "list"
    /\ Len(arg.items) = 2
    /\ arg.items[1] \in Comps
    /\ arg.items[2] = NotAComponent
    /\ can_reconnect(heap[<<arg.items[1], 1>>])

====
